---- MODULE Spec2Model ----
(***************************************************************************)
(* The object store and serialization engine of the pdf crate: struct Pdf   *)
(* (src/src/lib.rs) and the per-page Canvas (src/src/canvas.rs).            *)
(*                                                                         *)
(* The output file is a sequence of segments, one per formatted write, each *)
(* carrying its byte length, so that the file position (tell) is the sum of *)
(* the lengths written and every recorded offset is a byte position.        *)
(***************************************************************************)
EXTENDS Integers, Sequences, FiniteSets, TLC

VARIABLES output, object_offsets, page_objects_ids, all_font_object_ids,
          outline_items, document_info, status, calls, fin

vars == <<output, object_offsets, page_objects_ids, all_font_object_ids,
          outline_items, document_info, status, calls, fin>>

----------------------------------------------------------------------------
(* Bounds of the model *)

\* render_page calls (successful or failed) in one run
MaxCalls == 2
\* canvas operations performed by the render callbacks of one run
MaxOps == 3
\* metadata setter calls in one run
MaxSets == 1

(* Program constants *)

ROOT_OBJECT_ID == 1
PAGES_OBJECT_ID == 2
\* the sentinel of an offset slot that has not been written
Unwritten == -1
\* b"%PDF-1.7\n%\xB5\xED\xAE\xFB\n"
HeaderLen == 15
\* strftime("%Y%m%d%H%M%S%z"): 14 digits and a five-character zone
DateLen == 19

(* Inputs *)

BuiltinFont == {"Courier", "Times_Roman"}
Titles == {"t"}
Strings == {"a", "b"}
PageSizes == {<<180, 240>>}
\* set_author, set_creator and set_producer are set_title with another key
InfoKeys == {"Title", "Subject"}

----------------------------------------------------------------------------
(* Formatting *)

RECURSIVE Digits(_)
\* the number of characters of "{}" for a non-negative integer
Digits(n) == IF n < 10 THEN 1 ELSE 1 + Digits(n \div 10)

\* the number of characters of "{:010}": zero-padded to at least ten
Digits010(n) == IF Digits(n) < 10 THEN 10 ELSE Digits(n)

RECURSIVE SumLen(_)
SumLen(segs) == IF segs = <<>> THEN 0 ELSE segs[1].len + SumLen(Tail(segs))

RECURSIVE SumDigits(_)
SumDigits(ns) == IF ns = <<>> THEN 0 ELSE Digits(ns[1]) + SumDigits(Tail(ns))

\* every order in which a set can be iterated
Orders(S) ==
    {o \in [1..Cardinality(S) -> S] : \A i, j \in DOMAIN o : i # j => o[i] # o[j]}

Seg(k, len, v) == [k |-> k, len |-> len, v |-> v]

----------------------------------------------------------------------------
(* struct Pdf as a record, and the file position *)

Self ==
    [output |-> output,
     object_offsets |-> object_offsets,
     page_objects_ids |-> page_objects_ids,
     all_font_object_ids |-> all_font_object_ids,
     outline_items |-> outline_items,
     document_info |-> document_info]

\* output.seek(SeekFrom::Current(0))
tell(p) == SumLen(p.output)

write(p, segs) == [p EXCEPT !.output = @ \o segs]

\* Pdf::new
new ==
    [output |-> <<Seg("header", HeaderLen, <<>>)>>,
     object_offsets |-> <<Unwritten, Unwritten, Unwritten>>,
     page_objects_ids |-> <<>>,
     all_font_object_ids |-> <<>>,
     outline_items |-> <<>>,
     document_info |-> <<>>]

----------------------------------------------------------------------------
(* The object writer *)

\* Option::None of an object ID (ID 0 is never the ID of a written object)
None == 0

\* write_object_begin with the offset taken after the header was written
write_object_begin_late(p, id) ==
    [pdf |-> write(p, <<Seg("obj", Digits(id) + 7, [id |-> id])>>),
     offset |-> tell(p) + Digits(id) + 7]

\* write_object up to the call of write_content: the offset is the position
\* before the header "{} 0 obj\n"
write_object_begin(p, id) ==
    [pdf |-> write(p, <<Seg("obj", Digits(id) + 7, [id |-> id])>>),
     offset |-> tell(p)]

\* write_object after write_content returned Ok: "endobj\n"
write_object_end(q) == write(q, <<Seg("endobj", 7, <<>>)>>)

\* new_object_begin taking the ID one past the number of offset slots
new_object_begin_skip(p) ==
    [id |-> Len(p.object_offsets) + 1,
     pdf |-> write_object_begin(p, Len(p.object_offsets) + 1).pdf,
     offset |-> tell(p)]

\* write_new_object up to the call of write_content: the ID is the number of
\* offset slots
new_object_begin(p) ==
    LET id == Len(p.object_offsets)
        b == write_object_begin(p, id)
    IN  [id |-> id, pdf |-> b.pdf, offset |-> b.offset]

\* new_object_end recording the position after the footer
new_object_end_at_end(q, offset) ==
    [write_object_end(q) EXCEPT !.object_offsets = Append(@, tell(write_object_end(q)))]

\* write_new_object after write_content returned Ok: the footer, then the
\* push of the offset
new_object_end(q, offset) ==
    LET e == write_object_end(q)
    IN  [e EXCEPT !.object_offsets = Append(@, offset)]

\* write_new_object with a closure that writes `content` and returns the ID
write_new_object(p, content) ==
    LET b == new_object_begin(p)
    IN  [pdf |-> new_object_end(write(b.pdf, content), b.offset), id |-> b.id]

\* write_object_with_id without the assertion on the slot
write_object_with_id_unchecked(p, id, content) ==
    IF id >= Len(p.object_offsets)
    THEN [panicked |-> TRUE, pdf |-> p]
    ELSE [panicked |-> FALSE,
          pdf |-> [write_object_end(write(write_object_begin(p, id).pdf, content))
                      EXCEPT !.object_offsets[id + 1] = tell(p)]]

\* write_object_with_id: indexing an ID that has no slot and the assertion on
\* a filled slot both panic before anything is written
write_object_with_id(p, id, content) ==
    IF id >= Len(p.object_offsets) \/ p.object_offsets[id + 1] # Unwritten
    THEN [panicked |-> TRUE, pdf |-> p]
    ELSE LET b == write_object_begin(p, id)
             e == write_object_end(write(b.pdf, content))
         IN  [panicked |-> FALSE,
              pdf |-> [e EXCEPT !.object_offsets[id + 1] = b.offset]]

----------------------------------------------------------------------------
(* Canvas *)

\* FontRef::new(n, metrics): the page-local index and the font's metrics
FontRef(n, font) == [n |-> n, metrics |-> font]

\* the name a FontRef is displayed as in a page's font resources: "/F{n}"
FontRefLen(r) == 2 + Digits(r.n)

\* OutlineItem::new(title): no page yet
OutlineItem(title) == [title |-> title, page |-> None]

\* OutlineItem::set_page
set_page(item, page_oid) == [item EXCEPT !.page = page_oid]

create_canvas(out, fonts, items) ==
    [output |-> out, fonts |-> fonts, outline_items |-> items, refs |-> <<>>]

\* get_font numbering a new font by the number of references handed out
get_font_by_calls(c, font) ==
    IF font \in DOMAIN c.fonts
    THEN [c EXCEPT !.refs = Append(@, c.fonts[font])]
    ELSE [c EXCEPT !.fonts = (font :> FontRef(Len(c.refs), font)) @@ @,
                   !.refs = Append(@, FontRef(Len(c.refs), font))]

\* get_font making a new reference for every call
get_font_always_new(c, font) ==
    [c EXCEPT !.fonts = (font :> FontRef(Cardinality(DOMAIN c.fonts), font)) @@ @,
              !.refs = Append(@, FontRef(Cardinality(DOMAIN c.fonts), font))]

\* Canvas::get_font; refs logs the references returned
get_font(c, font) ==
    IF font \in DOMAIN c.fonts
    THEN [c EXCEPT !.refs = Append(@, c.fonts[font])]
    ELSE LET n == Cardinality(DOMAIN c.fonts)
             r == FontRef(n, font)
         IN  [c EXCEPT !.fonts = (font :> r) @@ @, !.refs = Append(@, r)]

\* Canvas::add_outline
add_outline(c, title) ==
    [c EXCEPT !.outline_items = Append(@, OutlineItem(title))]

\* Canvas::stroke: "s\n"
stroke(c) == [c EXCEPT !.output = Append(@, Seg("s", 2, <<>>))]

CanvasOps ==
    [op : {"get_font"}, arg : BuiltinFont]
        \cup [op : {"add_outline"}, arg : Titles]
        \cup [op : {"stroke"}, arg : {""}]

apply(c, o) ==
    CASE o.op = "get_font" -> get_font(c, o.arg)
      [] o.op = "add_outline" -> add_outline(c, o.arg)
      [] o.op = "stroke" -> stroke(c)

RECURSIVE run_ops(_, _)
\* the render callback: the canvas operations it performs, in order
run_ops(c, ops) == IF ops = <<>> THEN c ELSE run_ops(apply(c, ops[1]), Tail(ops))

\* the callbacks considered: up to n canvas operations
Callbacks(n) == UNION {[1..m -> CanvasOps] : m \in 0..n}

----------------------------------------------------------------------------
(* render_page *)

\* FontSource::write_object: a new object holding the font dictionary
\* "<< /Type /Font /Subtype /Type1 /BaseFont /{} /Encoding /WinAnsiEncoding >>\n"
font_write_object(p, src) ==
    write_new_object(p, <<Seg("font", 73 + Len(src), [font |-> src])>>)

\* stream_result with `end` taken after "endstream\n" was written
stream_result_late_end(contents_object_id, q, start, c, cb_ok) ==
    [ok |-> cb_ok,
     pdf |-> IF cb_ok
             THEN [q EXCEPT !.output = Append(c.output, Seg("endstream", 10, <<>>))]
             ELSE [q EXCEPT !.output = c.output],
     contents_object_id |-> contents_object_id,
     content_length |-> IF cb_ok THEN SumLen(c.output) + 10 - start ELSE 0,
     fonts |-> c.fonts,
     outline_items |-> c.outline_items]

\* the end of the closure render_page gives to its first write_new_object:
\* c is the canvas after the callback, start the position before the body
stream_result(contents_object_id, q, start, c, cb_ok) ==
    [ok |-> cb_ok,
     pdf |-> IF cb_ok
             THEN [q EXCEPT !.output = Append(c.output, Seg("endstream", 10, <<>>))]
             ELSE [q EXCEPT !.output = c.output],
     contents_object_id |-> contents_object_id,
     content_length |-> IF cb_ok THEN SumLen(c.output) - start ELSE 0,
     fonts |-> c.fonts,
     outline_items |-> c.outline_items]

\* stream_body with `start` taken after the colour-space line was written
stream_body_late_start(contents_object_id, q1, ops, cb_ok) ==
    stream_result(contents_object_id, q1, tell(q1) + 28,
                  run_ops(create_canvas(Append(q1.output, Seg("cs", 28, <<>>)),
                                        <<>>, <<>>), ops),
                  cb_ok)

\* the closure from `start = tell()` on; q1 is the Pdf after the stream's
\* dictionary was written
stream_body(contents_object_id, q1, ops, cb_ok) ==
    stream_result(contents_object_id, q1, tell(q1),
                  run_ops(create_canvas(Append(q1.output, Seg("cs", 28, <<>>)),
                                        <<>>, <<>>), ops),
                  cb_ok)

\* the closure render_page gives to its first write_new_object, run on the
\* Pdf q whose output ends with the header of object contents_object_id
stream_closure(contents_object_id, q, ops, cb_ok) ==
    stream_body(contents_object_id,
                write(q, <<Seg("stream", 26 + Digits(contents_object_id + 1),
                               [length |-> contents_object_id + 1])>>),
                ops, cb_ok)

RECURSIVE first_uses(_, _)
\* the fonts a callback asks for, each once, in the order of their first use
first_uses(ops, seen) ==
    IF ops = <<>> THEN seen
    ELSE first_uses(Tail(ops),
                    IF ops[1].op = "get_font"
                       /\ \A n \in DOMAIN seen : seen[n] # ops[1].arg
                    THEN Append(seen, ops[1].arg)
                    ELSE seen)

RECURSIVE added_titles(_, _)
\* the titles a callback gives to add_outline, in the order of the calls
added_titles(ops, seen) ==
    IF ops = <<>> THEN seen
    ELSE added_titles(Tail(ops),
                      IF ops[1].op = "add_outline" THEN Append(seen, ops[1].arg)
                      ELSE seen)

\* the fonts a callback leaves in the page's table
page_fonts(ops) == run_ops(create_canvas(<<>>, <<>>, <<>>), ops).fonts

\* the body of the loop over the page's fonts: an object is written for a
\* source the document has not written yet
font_new(w, src, r, font_oids) ==
    [pdf |-> [w.pdf EXCEPT !.all_font_object_ids = (src :> w.id) @@ @],
     font_oids |-> (r :> w.id) @@ font_oids]

\* font_step without the lookup in all_font_object_ids
font_step_always(p, src, r, font_oids) ==
    font_new(font_write_object(p, src), src, r, font_oids)

font_step(p, src, r, font_oids) ==
    IF src \in DOMAIN p.all_font_object_ids
    THEN [pdf |-> p, font_oids |-> (r :> p.all_font_object_ids[src]) @@ font_oids]
    ELSE font_new(font_write_object(p, src), src, r, font_oids)

RECURSIVE font_loop(_, _, _)
\* for (src, r) in &fonts, in the iteration order `order`; f holds the Pdf and
\* font_oids
font_loop(f, fonts, order) ==
    IF order = <<>> THEN f
    ELSE font_loop(font_step(f.pdf, order[1], fonts[order[1]], f.font_oids),
                   fonts, Tail(order))

RECURSIVE NamedRefsLen(_, _)
\* the characters of NamedRefs' Display: "{} {} 0 R " per entry
NamedRefsLen(font_oids, rs) ==
    IF rs = {} THEN 0
    ELSE NamedRefsLen(font_oids, rs \ {CHOOSE r \in rs : TRUE})
            + FontRefLen(CHOOSE r \in rs : TRUE)
            + Digits(font_oids[CHOOSE r \in rs : TRUE]) + 6

\* write_page_dict naming the length object as the page's contents
write_page_dict_length_ref(p, content_oid, width, height, font_oids) ==
    write_new_object(p,
        <<Seg("page",
              107 + Digits(PAGES_OBJECT_ID)
                  + NamedRefsLen(font_oids, DOMAIN font_oids)
                  + Digits(width) + Digits(height) + Digits(content_oid + 1),
              [parent |-> PAGES_OBJECT_ID, fonts |-> font_oids,
               contents |-> content_oid + 1])>>)

write_page_dict(p, content_oid, width, height, font_oids) ==
    write_new_object(p,
        <<Seg("page",
              107 + Digits(PAGES_OBJECT_ID)
                  + NamedRefsLen(font_oids, DOMAIN font_oids)
                  + Digits(width) + Digits(height) + Digits(content_oid),
              [parent |-> PAGES_OBJECT_ID, fonts |-> font_oids,
               contents |-> content_oid])>>)

RECURSIVE outline_loop_prepend(_, _, _)
\* outline_loop putting each item in front of the document's list
outline_loop_prepend(doc_items, items, page_oid) ==
    IF items = <<>> THEN doc_items
    ELSE outline_loop_prepend(<<set_page(items[1], page_oid)>> \o doc_items,
                              Tail(items), page_oid)

RECURSIVE outline_loop(_, _, _)
\* clone each of the page's items, mark it with the page, push it
outline_loop(doc_items, items, page_oid) ==
    IF items = <<>> THEN doc_items
    ELSE outline_loop(Append(doc_items, set_page(items[1], page_oid)),
                      Tail(items), page_oid)

\* what a call of render_page that wrote no page leaves in the log
no_page(r) ==
    [contents_object_id |-> r.contents_object_id, length_object_id |-> None,
     content_length |-> 0, fonts |-> <<>>, font_oids |-> <<>>,
     page_oid |-> None, items |-> 0]

\* render_page after write_page_dict returned d
render_page_end(r, length_object_id, font_oids, d) ==
    [result |-> "Ok",
     pdf |-> [d.pdf EXCEPT
                 !.outline_items = outline_loop(@, r.outline_items, d.id),
                 !.page_objects_ids = Append(@, d.id)],
     log |-> [contents_object_id |-> r.contents_object_id,
              length_object_id |-> length_object_id,
              content_length |-> r.content_length,
              fonts |-> r.fonts,
              font_oids |-> font_oids,
              page_oid |-> d.id,
              items |-> Len(r.outline_items)]]

\* render_page after the loop over the fonts returned f
render_page_dict(r, length_object_id, f, width, height) ==
    render_page_end(r, length_object_id, f.font_oids,
                    write_page_dict(f.pdf, r.contents_object_id, width, height,
                                    f.font_oids))

\* render_page's second write_new_object; lb is its state when the closure
\* is called
render_page_length(r, lb, width, height, order) ==
    IF lb.id # r.contents_object_id + 1
    THEN [result |-> "panic", pdf |-> lb.pdf, log |-> no_page(r)]
    ELSE render_page_dict(r, lb.id,
             font_loop([pdf |-> new_object_end(
                                   write(lb.pdf,
                                         <<Seg("int", Digits(r.content_length) + 1,
                                               [value |-> r.content_length])>>),
                                   lb.offset),
                        font_oids |-> <<>>],
                       r.fonts, order),
             width, height)

\* render_page_stream closing the object of a closure that returned an error
render_page_stream_closing(offset, r, width, height, order) ==
    IF ~r.ok
    THEN [result |-> "Err", pdf |-> new_object_end(r.pdf, offset),
          log |-> no_page(r)]
    ELSE render_page_length(r, new_object_begin(new_object_end(r.pdf, offset)),
                            width, height, order)

\* render_page after the closure of the content stream returned r
render_page_stream(offset, r, width, height, order) ==
    IF ~r.ok
    THEN [result |-> "Err", pdf |-> r.pdf, log |-> no_page(r)]
    ELSE render_page_length(r, new_object_begin(new_object_end(r.pdf, offset)),
                            width, height, order)

\* render_page once its first write_new_object has written the header
render_page_begin(b, width, height, ops, cb_ok, order) ==
    render_page_stream(b.offset, stream_closure(b.id, b.pdf, ops, cb_ok),
                       width, height, order)

\* Pdf::render_page with a callback that performs ops and returns Ok (cb_ok)
\* or an error; `order` is the order in which the page's fonts are iterated
render_page(p, width, height, ops, cb_ok, order) ==
    render_page_begin(new_object_begin(p), width, height, ops, cb_ok, order)

\* the writes of the closure of the content stream, each of which returns
\* from the closure when it fails
FailurePoints == {"stream", "cs", "endstream"}

\* the closure when its write `at` fails, having appended nothing: before
\* "endstream" the callback has run and returned Ok
stream_closure_failing(contents_object_id, q, ops, at) ==
    [ok |-> FALSE,
     pdf |-> CASE at = "stream" -> q
               [] at = "cs" ->
                    write(q, <<Seg("stream", 26 + Digits(contents_object_id + 1),
                                   [length |-> contents_object_id + 1])>>)
               [] at = "endstream" ->
                    stream_closure(contents_object_id, q, ops, FALSE).pdf,
     contents_object_id |-> contents_object_id,
     content_length |-> 0,
     fonts |-> <<>>,
     outline_items |-> <<>>]

\* Pdf::render_page when the write `at` of the closure fails
render_page_failing(p, width, height, ops, at) ==
    render_page_stream(new_object_begin(p).offset,
                       stream_closure_failing(new_object_begin(p).id,
                                              new_object_begin(p).pdf, ops, at),
                       width, height, <<>>)

----------------------------------------------------------------------------
(* finish *)

\* OutlineItem::write_dictionary: the title, the parent, the previous and
\* next siblings when given, and the page
write_dictionary(item, parent_id, prev, next) ==
    Seg("outline",
        29 + Len(item.title) + Digits(parent_id)
           + (IF prev = None THEN 0 ELSE 14 + Digits(prev))
           + (IF next = None THEN 0 ELSE 14 + Digits(next))
           + (IF item.page = None THEN 0 ELSE 36 + Digits(item.page)) + 3,
        [title |-> item.title, parent |-> parent_id, prev |-> prev,
         next |-> next, page |-> item.page])

\* items_step giving every item a next sibling
items_step_always_next(l, item, b, parent_id, is_first, is_last) ==
    [pdf |-> new_object_end(
                 write(b.pdf,
                       <<write_dictionary(item, parent_id,
                                          IF is_first THEN None ELSE b.id - 1,
                                          b.id + 1)>>),
                 b.offset),
     first_id |-> IF is_first THEN b.id ELSE l.first_id,
     last_id |-> IF is_last THEN b.id ELSE l.last_id]

\* the body of the loop over the outline items: l holds the Pdf, first_id and
\* last_id; b is the state of write_new_object when the closure is called
items_step(l, item, b, parent_id, is_first, is_last) ==
    [pdf |-> new_object_end(
                 write(b.pdf,
                       <<write_dictionary(item, parent_id,
                                          IF is_first THEN None ELSE b.id - 1,
                                          IF is_last THEN None ELSE b.id + 1)>>),
                 b.offset),
     first_id |-> IF is_first THEN b.id ELSE l.first_id,
     last_id |-> IF is_last THEN b.id ELSE l.last_id]

RECURSIVE items_loop_no_last(_, _, _, _)
\* items_loop with is_last computed as i == count
items_loop_no_last(l, items, i, parent_id) ==
    IF i >= Len(items) THEN l
    ELSE items_loop_no_last(items_step(l, items[i + 1], new_object_begin(l.pdf),
                                       parent_id, i = 0, i = Len(items)),
                            items, i + 1, parent_id)

RECURSIVE items_loop(_, _, _, _)
\* for (i, item) in items.iter().enumerate(), from index i (0-based) on
items_loop(l, items, i, parent_id) ==
    IF i >= Len(items) THEN l
    ELSE items_loop(items_step(l, items[i + 1], new_object_begin(l.pdf),
                               parent_id, i = 0, i = Len(items) - 1),
                    items, i + 1, parent_id)

\* the reservation of the outline root: a slot holding -1
reserve_parent(p) == [p EXCEPT !.object_offsets = Append(@, Unwritten)]

\* write_outlines with items, up to the end of the loop over them
write_outline_items(p) ==
    items_loop([pdf |-> reserve_parent(p), first_id |-> 0, last_id |-> 0],
               p.outline_items, 0, Len(p.object_offsets))

\* write_outlines never writing the root it reserved
write_outline_root_skipped(l, parent_id, count) ==
    [id |-> parent_id, panicked |-> FALSE, pdf |-> l.pdf]

\* write_outlines after the loop: the root object
write_outline_root(l, parent_id, count) ==
    [id |-> parent_id] @@
    write_object_with_id(l.pdf, parent_id,
        <<Seg("outlines",
              62 + Digits(l.first_id) + Digits(l.last_id) + Digits(count),
              [first |-> l.first_id, last |-> l.last_id, count |-> count])>>)

\* write_outlines writing the root before the items
root_first_items(w, items, parent_id) ==
    [id |-> parent_id, panicked |-> w.panicked,
     pdf |-> items_loop([pdf |-> w.pdf, first_id |-> 0, last_id |-> 0],
                        items, 0, parent_id).pdf]

write_outlines_root_first(p) ==
    IF p.outline_items = <<>>
    THEN [panicked |-> FALSE, pdf |-> p, id |-> None]
    ELSE root_first_items(
             write_object_with_id(reserve_parent(p), Len(p.object_offsets),
                 <<Seg("outlines",
                       62 + Digits(Len(p.object_offsets) + 1)
                          + Digits(Len(p.object_offsets) + Len(p.outline_items))
                          + Digits(Len(p.outline_items)),
                       [first |-> Len(p.object_offsets) + 1,
                        last |-> Len(p.object_offsets) + Len(p.outline_items),
                        count |-> Len(p.outline_items)])>>),
             p.outline_items, Len(p.object_offsets))

\* write_outlines without the early return on an empty list
write_outlines_always(p) ==
    write_outline_root(write_outline_items(p), Len(p.object_offsets),
                       Len(p.outline_items))

write_outlines(p) ==
    IF p.outline_items = <<>>
    THEN [panicked |-> FALSE, pdf |-> p, id |-> None]
    ELSE write_outline_root(write_outline_items(p), Len(p.object_offsets),
                            Len(p.outline_items))

\* pages_dict listing the pages from the last to the first
pages_dict_reversed(p) ==
    Seg("pages",
        43 + Digits(Len(p.page_objects_ids)) + SumDigits(p.page_objects_ids)
           + 5 * Len(p.page_objects_ids),
        [count |-> Len(p.page_objects_ids),
         kids |-> [i \in DOMAIN p.page_objects_ids |->
                      p.page_objects_ids[Len(p.page_objects_ids) + 1 - i]]])

\* the pages-root dictionary
pages_dict(p) ==
    Seg("pages",
        43 + Digits(Len(p.page_objects_ids)) + SumDigits(p.page_objects_ids)
           + 5 * Len(p.page_objects_ids),
        [count |-> Len(p.page_objects_ids), kids |-> p.page_objects_ids])

RECURSIVE InfoLen(_, _)
\* the characters of " /{} ({})\n" per entry of the document info
InfoLen(info, ks) ==
    IF ks = {} THEN 0
    ELSE InfoLen(info, ks \ {CHOOSE k \in ks : TRUE})
            + 6 + Len(CHOOSE k \in ks : TRUE) + Len(info[CHOOSE k \in ks : TRUE])

\* the document-info dictionary: "<<", the entries, the two dates, ">>\n"
info_dict(info) ==
    Seg("info", 2 + InfoLen(info, DOMAIN info) + 34 + 2 * DateLen + 3,
        [info |-> info])

\* finish: the document-info object when document_info is not empty
write_info(p) ==
    IF DOMAIN p.document_info # {}
    THEN write_new_object(p, <<info_dict(p.document_info)>>)
    ELSE [pdf |-> p, id |-> None]

\* the catalog's content: one segment per write
catalog_dict(outlines_id) ==
    <<Seg("catalog", 33 + Digits(PAGES_OBJECT_ID), [pages |-> PAGES_OBJECT_ID])>>
        \o (IF outlines_id # None
            THEN <<Seg("catalog_outlines", 15 + Digits(outlines_id),
                       [outlines |-> outlines_id])>>
            ELSE <<>>)
        \o <<Seg("dict_end", 3, <<>>)>>

RECURSIVE xref_lines(_, _)
\* for &offset in &object_offsets[1..]: the assertion, then one line; x holds
\* the lines written so far
xref_lines(x, offs) ==
    IF offs = <<>> \/ x.panicked THEN x
    ELSE xref_lines(IF offs[1] >= 0
                    THEN [x EXCEPT !.segs =
                             Append(@, Seg("xref_line", Digits010(offs[1]) + 10,
                                           [offset |-> offs[1]]))]
                    ELSE [x EXCEPT !.panicked = TRUE],
                    Tail(offs))

\* trailer_dict never naming the info object
trailer_dict_no_info(size, document_info_id, startxref) ==
    <<Seg("trailer", 32 + Digits(size) + Digits(ROOT_OBJECT_ID),
          [size |-> size, root |-> ROOT_OBJECT_ID]),
      Seg("startxref", 20 + Digits(startxref), [startxref |-> startxref])>>

\* the trailer dictionary and the startxref lines: one segment per write
trailer_dict(size, document_info_id, startxref) ==
    <<Seg("trailer", 32 + Digits(size) + Digits(ROOT_OBJECT_ID),
          [size |-> size, root |-> ROOT_OBJECT_ID])>>
        \o (IF document_info_id # None
            THEN <<Seg("trailer_info", 14 + Digits(document_info_id),
                       [info |-> document_info_id])>>
            ELSE <<>>)
        \o <<Seg("startxref", 20 + Digits(startxref), [startxref |-> startxref])>>

\* trailer_write with the count of the xref header one short
trailer_write_short(p, startxref, x, document_info_id) ==
    [panicked |-> x.panicked,
     startxref |-> startxref,
     pdf |-> write(p,
                <<Seg("xref", 28 + Digits(Len(p.object_offsets) - 1),
                      [count |-> Len(p.object_offsets) - 1])>>
                    \o x.segs
                    \o (IF x.panicked THEN <<>>
                        ELSE trailer_dict(Len(p.object_offsets), document_info_id,
                                          startxref)))]

\* finish from "xref" on, x being the cross-reference lines
trailer_write(p, startxref, x, document_info_id) ==
    [panicked |-> x.panicked,
     startxref |-> startxref,
     pdf |-> write(p,
                <<Seg("xref", 28 + Digits(Len(p.object_offsets)),
                      [count |-> Len(p.object_offsets)])>>
                    \o x.segs
                    \o (IF x.panicked THEN <<>>
                        ELSE trailer_dict(Len(p.object_offsets), document_info_id,
                                          startxref)))]

\* finish from `startxref = tell()` on
write_trailer(p, document_info_id) ==
    trailer_write(p, tell(p),
                  xref_lines([panicked |-> FALSE, segs |-> <<>>],
                             Tail(p.object_offsets)),
                  document_info_id)

\* what finish leaves in the log when it panics before the trailer
finish_panic(p) ==
    [result |-> "panic", pdf |-> p,
     log |-> [document_info_id |-> None, outlines_id |-> None, startxref |-> 0]]

\* finish after the trailer
finish_end(document_info_id, outlines_id, t) ==
    [result |-> IF t.panicked THEN "panic" ELSE "Ok",
     pdf |-> t.pdf,
     log |-> [document_info_id |-> document_info_id, outlines_id |-> outlines_id,
              startxref |-> t.startxref]]

\* finish after the catalog object
finish_xref(document_info_id, outlines_id, w) ==
    IF w.panicked THEN finish_panic(w.pdf)
    ELSE finish_end(document_info_id, outlines_id,
                    write_trailer(w.pdf, document_info_id))

\* finish after write_outlines returned o
finish_catalog(document_info_id, o) ==
    IF o.panicked THEN finish_panic(o.pdf)
    ELSE finish_xref(document_info_id, o.id,
                     write_object_with_id(o.pdf, ROOT_OBJECT_ID, catalog_dict(o.id)))

\* finish after the document-info step returned i
finish_outlines(i) == finish_catalog(i.id, write_outlines(i.pdf))

\* finish writing the outlines before the document info
finish_info_last(document_info_id, o, i) ==
    finish_catalog(i.id, [o EXCEPT !.pdf = i.pdf])

finish_outlines_first(o) ==
    IF o.panicked THEN finish_panic(o.pdf)
    ELSE finish_info_last(None, o, write_info(o.pdf))

finish_info_swapped(w) ==
    IF w.panicked THEN finish_panic(w.pdf)
    ELSE finish_outlines_first(write_outlines(w.pdf))

\* finish after the pages-root object
finish_info(w) ==
    IF w.panicked THEN finish_panic(w.pdf)
    ELSE finish_outlines(write_info(w.pdf))

\* Pdf::finish
finish(p) ==
    finish_info(write_object_with_id(p, PAGES_OBJECT_ID, <<pages_dict(p)>>))

----------------------------------------------------------------------------
(* graphicsstate: f32 arithmetic *)

\* f32: the widths of the significand
B12 == 4096
B22 == 4194304
B23 == 8388608
B24 == 16777216

\* an f32 other than zero is s * m * 2^e with s the sign and 2^23 <= m < 2^24;
\* exponents stay far from the ends of the f32 range in what follows
F(s, m, e) == [s |-> s, m |-> m, e |-> e]
Zero == F(1, 0, 0)

\* round to nearest, ties to even: r is what was cut off, h a half of the
\* last place
Rne(s, m, e, r, h) ==
    IF r > h \/ (r = h /\ m % 2 = 1)
    THEN (IF m + 1 = B24 THEN F(s, B23, e + 1) ELSE F(s, m + 1, e))
    ELSE F(s, m, e)

RECURSIVE Width(_)
\* the number of bits of n >= 1
Width(n) == IF n < 2 THEN 1 ELSE 1 + Width(n \div 2)

\* the f32 nearest to s * n * 2^e, n >= 0 below 2^31; when bits were lost
\* before, the last bit of n stands for all of them
CutRound(s, n, e, k) ==
    Rne(s, n \div (2 ^ k), e + k, n % (2 ^ k), 2 ^ (k - 1))

NormRound(s, n, e) ==
    IF n = 0 THEN Zero
    ELSE IF n < B24 THEN F(s, n * (2 ^ (24 - Width(n))), e - (24 - Width(n)))
    ELSE CutRound(s, n, e, Width(n) - 24)

\* the f32 of a small integer
FInt(n) == IF n < 0 THEN NormRound(-1, -n, 0) ELSE NormRound(1, n, 0)

Neg(x) == F(-x.s, x.m, x.e)
Abs(x) == F(1, x.m, x.e)

\* the product of two significands, as hi * 2^24 + lo, from their halves
MulMid(ah, al, bh, bl) == ah * bl + al * bh
MulLow(al, bl, mid) == al * bl + (mid % B12) * B12
MulHiOf(ah, bh, mid, low) == ah * bh + (mid \div B12) + (low \div B24)
MulParts(ah, al, bh, bl, mid) ==
    [hi |-> MulHiOf(ah, bh, mid, MulLow(al, bl, mid)),
     lo |-> MulLow(al, bl, mid) % B24]
MulWide(a, b) ==
    MulParts(a \div B12, a % B12, b \div B12, b % B12,
             MulMid(a \div B12, a % B12, b \div B12, b % B12))

\* the rounding of a product hi * 2^24 + lo of two significands
MulRound(s, e, p) ==
    IF p.hi >= B23
    THEN Rne(s, p.hi, e + 24, p.lo, B23)
    ELSE Rne(s, 2 * p.hi + (p.lo \div B23), e + 23, p.lo % B23, B22)

\* f32 `*`
FMul(x, y) ==
    IF x.m = 0 \/ y.m = 0 THEN Zero
    ELSE MulRound(x.s * y.s, x.e + y.e, MulWide(x.m, y.m))

\* the smaller operand of a sum, with three more bits, moved d places to the
\* right; the last bit is set when a bit was lost
Shifted(m8, d) ==
    IF d >= 27 THEN 1
    ELSE IF m8 % (2 ^ d) # 0 /\ (m8 \div (2 ^ d)) % 2 = 0
         THEN (m8 \div (2 ^ d)) + 1
         ELSE m8 \div (2 ^ d)

\* x + y for |x| >= |y|, both not zero
AddOrdered(x, y) ==
    IF x.s = y.s
    THEN NormRound(x.s, 8 * x.m + Shifted(8 * y.m, x.e - y.e), x.e - 3)
    ELSE NormRound(x.s, 8 * x.m - Shifted(8 * y.m, x.e - y.e), x.e - 3)

\* f32 `+`
FAdd(x, y) ==
    IF x.m = 0 THEN y
    ELSE IF y.m = 0 THEN x
    ELSE IF x.e > y.e \/ (x.e = y.e /\ x.m >= y.m) THEN AddOrdered(x, y)
    ELSE AddOrdered(y, x)

\* f32 `-`
FSub(x, y) == FAdd(x, Neg(y))

\* f32 `>`
FGt(x, y) == FSub(x, y).m # 0 /\ FSub(x, y).s = 1

\* f32::max
FMax(x, y) == IF FGt(y, x) THEN y ELSE x

RECURSIVE DivBits(_, _, _, _)
\* n more bits of the quotient q, r being the remainder so far
DivBits(q, r, d, n) ==
    IF n = 0 THEN 2 * q + (IF r # 0 THEN 1 ELSE 0)
    ELSE IF 2 * r >= d THEN DivBits(2 * q + 1, 2 * r - d, d, n - 1)
    ELSE DivBits(2 * q, 2 * r, d, n - 1)

\* f32 `/`, y not zero
FDiv(x, y) ==
    IF x.m = 0 THEN Zero
    ELSE NormRound(x.s * y.s, DivBits(x.m \div y.m, x.m % y.m, y.m, 26),
                   x.e - y.e - 27)

----------------------------------------------------------------------------
(* graphicsstate: Matrix *)

\* std::f32::consts::PI
PI == F(1, 13176795, -22)

\* the f32 literals 1., 0. and 1e-6
One == F(1, B23, -23)
Epsilon == F(1, 8796093, -43)

\* the f32 next to x, away from zero and towards zero
Up(x) == IF x.m + 1 = B24 THEN F(x.s, B23, x.e + 1) ELSE F(x.s, x.m + 1, x.e)
Down(x) == IF x.m = B23 THEN F(x.s, B24 - 1, x.e - 1) ELSE F(x.s, x.m - 1, x.e)

\* the f32 nearest to the cosine and to the sine of the angles that occur:
\* PI / 4, -PI / 4, PI and 2 PI as f32
CosNearest(a) ==
    CASE Abs(a) = F(1, 13176795, -24) -> F(1, 11863283, -24)
      [] a = F(1, 13176795, -22) -> F(-1, B23, -23)
      [] a = F(1, 13176795, -21) -> F(1, B23, -23)

SinNearest(a) ==
    CASE Abs(a) = F(1, 13176795, -24) -> F(a.s, 11863283, -24)
      [] a = F(1, 13176795, -22) -> F(-1, 12303662, -47)
      [] a = F(1, 13176795, -21) -> F(1, 12303662, -46)

\* f32::cos and f32::sin are the platform's: any result within one unit in
\* the last place of the nearest f32; t is the pair the platform returns
Libm(a) ==
    [cos : {CosNearest(a), Up(CosNearest(a)), Down(CosNearest(a))},
     sin : {SinNearest(a), Up(SinNearest(a)), Down(SinNearest(a))}]

\* Matrix { v: [f32; 6] }, v[0] the first
translate(dx, dy) == <<One, Zero, Zero, One, dx, dy>>

\* Matrix::rotate(a), t being a.cos() and a.sin()
rotate(a, t) == <<t.cos, t.sin, Neg(t.sin), t.cos, Zero, Zero>>

\* the angle rotate_deg passes to rotate
Radians(a) == FDiv(FMul(a, PI), FInt(180))

rotate_deg(a, t) == rotate(Radians(a), t)

scale(sx, sy) == <<sx, Zero, Zero, sy, Zero, Zero>>

uniform_scale(s) == scale(s, s)

\* Mul::mul with the two operands exchanged
mul_swapped(a, b) ==
    <<FAdd(FMul(b[1], a[1]), FMul(b[2], a[3])),
      FAdd(FMul(b[1], a[2]), FMul(b[2], a[4])),
      FAdd(FMul(b[3], a[1]), FMul(b[4], a[3])),
      FAdd(FMul(b[3], a[2]), FMul(b[4], a[4])),
      FAdd(FAdd(FMul(b[5], a[1]), FMul(b[6], a[3])), a[5]),
      FAdd(FAdd(FMul(b[5], a[2]), FMul(b[6], a[4])), a[6])>>

\* impl Mul for Matrix
mul(a, b) ==
    <<FAdd(FMul(a[1], b[1]), FMul(a[2], b[3])),
      FAdd(FMul(a[1], b[2]), FMul(a[2], b[4])),
      FAdd(FMul(a[3], b[1]), FMul(a[4], b[3])),
      FAdd(FMul(a[3], b[2]), FMul(a[4], b[4])),
      FAdd(FAdd(FMul(a[5], b[1]), FMul(a[6], b[3])), b[5]),
      FAdd(FAdd(FMul(a[5], b[2]), FMul(a[6], b[4])), b[6])>>

RECURSIVE Largest(_, _, _)
\* a.iter().fold(0f32, |x, &y| x.max(y)), from element i on
Largest(a, i, x) ==
    IF i > Len(a) THEN x ELSE Largest(a, i + 1, FMax(x, a[i]))

\* diff(a, b): TRUE for Some(..), FALSE for None
differs(a, b, epsilon) ==
    \E i \in 1..6 : FGt(Abs(FSub(a[i], b[i])), epsilon)

diff(a, b) ==
    differs(a, b, FMul(Epsilon, FMax(Largest(a, 1, Zero), Largest(b, 1, Zero))))

Unit == <<One, Zero, Zero, One, Zero, Zero>>

\* assert_unit(m): TRUE when the assertion holds
assert_unit(m) == ~diff(Unit, m)

----------------------------------------------------------------------------
(* The state machine *)

Store(p) ==
    /\ output' = p.output
    /\ object_offsets' = p.object_offsets
    /\ page_objects_ids' = p.page_objects_ids
    /\ all_font_object_ids' = p.all_font_object_ids
    /\ outline_items' = p.outline_items
    /\ document_info' = p.document_info

\* Pdf::new; calls logs the locals of every render_page call, fin those of
\* finish
Init ==
    /\ output = new.output
    /\ object_offsets = new.object_offsets
    /\ page_objects_ids = new.page_objects_ids
    /\ all_font_object_ids = new.all_font_object_ids
    /\ outline_items = new.outline_items
    /\ document_info = new.document_info
    /\ status = "open"
    /\ calls = <<>>
    /\ fin = [document_info_id |-> None, outlines_id |-> None, startxref |-> 0,
              sets |-> 0, ops |-> 0]

Status(result) == IF result = "panic" THEN "panicked" ELSE "open"

Rendered(r, ops) ==
    /\ Store(r.pdf)
    /\ status' = Status(r.result)
    /\ calls' = Append(calls,
                       [result |-> r.result,
                        used |-> IF r.result = "Ok" THEN first_uses(ops, <<>>)
                                 ELSE <<>>,
                        added |-> IF r.result = "Ok" THEN added_titles(ops, <<>>)
                                  ELSE <<>>] @@ r.log)
    /\ fin' = [fin EXCEPT !.ops = @ + Len(ops)]

RenderPage ==
    /\ status = "open"
    /\ Len(calls) < MaxCalls
    /\ \E size \in PageSizes, ops \in Callbacks(MaxOps - fin.ops), cb_ok \in BOOLEAN :
         \E order \in Orders(DOMAIN page_fonts(ops)) :
            Rendered(render_page(Self, size[1], size[2], ops, cb_ok, order), ops)

\* set_title, set_author, set_subject, set_creator, set_producer
set_info(p, key, value) ==
    [p EXCEPT !.document_info = (key :> value) @@ @]

\* set_keywords storing under a key of its own
set_keywords_own_key(p, keywords) == set_info(p, "Keywords", keywords)

\* set_keywords stores under "Subject"
set_keywords(p, keywords) == set_info(p, "Subject", keywords)

SetInfo ==
    /\ status = "open"
    /\ fin.sets < MaxSets
    /\ \E key \in InfoKeys, value \in Strings :
         /\ Store(set_info(Self, key, value))
         /\ fin' = [fin EXCEPT !.sets = @ + 1]
         /\ UNCHANGED <<status, calls>>

SetKeywords ==
    /\ status = "open"
    /\ fin.sets < MaxSets
    /\ \E value \in Strings :
         /\ Store(set_keywords(Self, value))
         /\ fin' = [fin EXCEPT !.sets = @ + 1]
         /\ UNCHANGED <<status, calls>>

Finished(r) ==
    /\ Store(r.pdf)
    /\ status' = IF r.result = "Ok" THEN "finished" ELSE "panicked"
    /\ fin' = r.log @@ fin
    /\ calls' = calls

Finish ==
    /\ status = "open"
    /\ Finished(finish(Self))

Next == RenderPage \/ SetKeywords \/ SetInfo \/ Finish

Spec == Init /\ [][Next]_vars

\* write_object_with_id called on its own, on any ID up to one past the last
\* slot, with the pages dictionary as content; it counts as a call
WroteWithId(w, id) ==
    /\ Store(w.pdf)
    /\ status' = IF w.panicked THEN "panicked" ELSE "open"
    /\ calls' = Append(calls, [result |-> IF w.panicked THEN "with_id_panic"
                                          ELSE "with_id",
                               id |-> id])
    /\ fin' = fin

WriteObjectWithId ==
    /\ status = "open"
    /\ Len(calls) < MaxCalls
    /\ \E id \in 0..Len(object_offsets) :
         WroteWithId(write_object_with_id(Self, id, <<pages_dict(Self)>>), id)

NextW == RenderPage \/ WriteObjectWithId \/ SetKeywords \/ SetInfo \/ Finish

SpecW == Init /\ [][NextW]_vars

\* the five setters that store under the key of their name
InfoSetters == {"Title", "Author", "Subject", "Creator", "Producer"}

\* a setter call, logged in calls with the name of the setter and the value
LoggedSet(p, setter, value) ==
    /\ Store(p)
    /\ calls' = Append(calls, [result |-> setter, value |-> value])
    /\ UNCHANGED <<status, fin>>

SetInfoLogged ==
    /\ status = "open"
    /\ Len(calls) < MaxCalls
    /\ \E key \in InfoSetters, value \in Strings :
         LoggedSet(set_info(Self, key, value), key, value)

SetKeywordsLogged ==
    /\ status = "open"
    /\ Len(calls) < MaxCalls
    /\ \E value \in Strings :
         LoggedSet(set_keywords(Self, value), "Keywords", value)

NextInfo == SetInfoLogged \/ SetKeywordsLogged \/ Finish

\* a call of render_page in which a write of the closure fails: the callback
\* runs only when the failing write is the one after it
RenderPageFailing ==
    /\ status = "open"
    /\ Len(calls) < MaxCalls
    /\ \E size \in PageSizes, at \in FailurePoints :
         \E ops \in IF at = "endstream" THEN Callbacks(MaxOps - fin.ops)
                                        ELSE {<<>>} :
            /\ Store(render_page_failing(Self, size[1], size[2], ops, at).pdf)
            /\ status' = "open"
            /\ calls' = Append(calls,
                               [result |-> "Err", used |-> <<>>, added |-> <<>>,
                                at |-> at]
                                   @@ render_page_failing(Self, size[1], size[2],
                                                          ops, at).log)
            /\ fin' = [fin EXCEPT !.ops = @ + Len(ops)]

NextFail == RenderPage \/ RenderPageFailing \/ Finish

\* pages whose callback or whose closure's writes may fail, then finish
SpecFail == Init /\ [][NextFail]_vars

\* the descriptors one callback asks for: three of the built-in fonts
CanvasFonts == BuiltinFont \cup {"Helvetica"}

\* the canvas of one render_page call, as the last operation left it; the
\* canvas starts with the empty tables render_page creates it with
TheCanvas ==
    IF calls = <<>> THEN create_canvas(<<>>, <<>>, <<>>)
    ELSE calls[Len(calls)].canvas

\* one operation of the callback on its canvas
CanvasDid(o, c) ==
    /\ calls' = Append(calls, [result |-> "Ok", op |-> o.op, arg |-> o.arg,
                               canvas |-> c])
    /\ UNCHANGED <<output, object_offsets, page_objects_ids,
                   all_font_object_ids, outline_items, document_info, status,
                   fin>>

CanvasGetFont ==
    /\ Len(calls) < MaxOps
    /\ \E font \in CanvasFonts :
         CanvasDid([op |-> "get_font", arg |-> font], get_font(TheCanvas, font))

CanvasAddOutline ==
    /\ Len(calls) < MaxOps
    /\ \E title \in Titles :
         CanvasDid([op |-> "add_outline", arg |-> title],
                   add_outline(TheCanvas, title))

CanvasStroke ==
    /\ Len(calls) < MaxOps
    /\ CanvasDid([op |-> "stroke", arg |-> ""], stroke(TheCanvas))

NextCanvas == CanvasGetFont \/ CanvasAddOutline \/ CanvasStroke

\* the operations of one callback on the canvas of one page
SpecCanvas == Init /\ [][NextCanvas]_vars

\* the metadata setters in any order, then finish
SpecInfo == Init /\ [][NextInfo]_vars

\* callbacks that tell their outline items apart: two titles, one font
OutlineTitles == {"t", "u"}

OutlineOps ==
    [op : {"add_outline"}, arg : OutlineTitles]
        \cup [op : {"get_font"}, arg : {"Courier"}]
        \cup [op : {"stroke"}, arg : {""}]

OutlineCallbacks(n) == UNION {[1..m -> OutlineOps] : m \in 0..n}

RenderOutlinePage ==
    /\ status = "open"
    /\ Len(calls) < MaxCalls
    /\ \E size \in PageSizes, ops \in OutlineCallbacks(MaxOps - fin.ops),
          cb_ok \in BOOLEAN :
         \E order \in Orders(DOMAIN page_fonts(ops)) :
            Rendered(render_page(Self, size[1], size[2], ops, cb_ok, order), ops)

NextOutline == RenderOutlinePage \/ Finish

\* pages whose callbacks add outline items with different titles, then finish
SpecOutline == Init /\ [][NextOutline]_vars

\* the arguments the matrices are built from: -1, 0.5 and 2
Factors == {FInt(-1), FDiv(One, FInt(2)), FInt(2)}

\* the matrices of translate and scale with these arguments
Matrices ==
    {translate(dx, dy) : dx \in Factors, dy \in Factors}
        \cup {scale(sx, sy) : sx \in Factors, sy \in Factors}

\* a product of two matrices, logged in calls with its operands
MatrixMul ==
    /\ calls = <<>>
    /\ \E a \in Matrices, b \in Matrices :
         calls' = <<[result |-> "mul", a |-> a, b |-> b, m |-> mul(a, b)]>>
    /\ UNCHANGED <<output, object_offsets, page_objects_ids, all_font_object_ids,
                   outline_items, document_info, status, fin>>

\* a test of graphicsstate.rs: the matrix it builds and what assert_unit does
Tested(test, m) ==
    /\ calls' = <<[result |-> test, m |-> m]>>
    /\ status' = IF assert_unit(m) THEN "open" ELSE "panicked"
    /\ UNCHANGED <<output, object_offsets, page_objects_ids, all_font_object_ids,
                   outline_items, document_info, fin>>

test_matrix_mul_a ==
    /\ calls = <<>>
    /\ \E t \in Libm(Radians(FInt(45))), u \in Libm(Radians(FInt(-45))) :
         Tested("a", mul(rotate_deg(FInt(45), t), rotate_deg(FInt(-45), u)))

test_matrix_mul_b ==
    /\ calls = <<>>
    /\ Tested("b", mul(uniform_scale(FInt(2)), uniform_scale(FDiv(One, FInt(2)))))

test_matrix_mul_c ==
    /\ calls = <<>>
    /\ \E t \in Libm(FMul(FInt(2), PI)) :
         Tested("c", rotate(FMul(FInt(2), PI), t))

test_matrix_mul_d ==
    /\ calls = <<>>
    /\ \E t \in Libm(PI) :
         Tested("d", mul(rotate(PI, t), uniform_scale(FInt(-1))))

NextMatrix ==
    \/ MatrixMul
    \/ test_matrix_mul_a
    \/ test_matrix_mul_b
    \/ test_matrix_mul_c
    \/ test_matrix_mul_d

\* one product or one of the four tests
SpecMatrix == Init /\ [][NextMatrix]_vars

----------------------------------------------------------------------------
(* Reading the output back *)

\* the byte position at which segment i starts
Pos(i) == SumLen(SubSeq(output, 1, i - 1))

\* the segments of one kind
Idx(k) == {i \in DOMAIN output : output[i].k = k}

\* the n-th (from 1) index of a set of indices
Nth(S, n) == CHOOSE i \in S : Cardinality({j \in S : j < i}) = n - 1

\* the headers "<id> 0 obj" of one ID
HeadersOf(id) == {i \in Idx("obj") : output[i].v.id = id}

\* the "endstream" that closes the stream opened at segment i, if any: the
\* first one after i with no object header in between
StreamEnd(i) ==
    {j \in Idx("endstream") :
        /\ j > i
        /\ \A m \in (i + 1)..(j - 1) : output[m].k \notin {"obj", "endstream"}}

\* the "endobj" that closes the object whose header is segment i, if any
ObjEnd(i) ==
    {j \in Idx("endobj") :
        /\ j > i
        /\ \A m \in (i + 1)..(j - 1) : output[m].k \notin {"obj", "endobj"}}

\* the headers of the objects that were written to their end
Complete == {i \in Idx("obj") : ObjEnd(i) # {}}

\* the render_page calls that returned Ok
OkCalls == {c \in DOMAIN calls : calls[c].result = "Ok"}
ErrCalls == {c \in DOMAIN calls : calls[c].result = "Err"}

\* the offset the cross-reference table gives for an ID, after finish
XrefOffset(id) == output[Nth(Idx("xref_line"), id)].v.offset

----------------------------------------------------------------------------
(* Claims *)

\* C1: every content stream that render_page completed is followed by its
\* length object: the object's ID is the stream's ID plus one and is the ID
\* announced in /Length, its integer is the number of bytes between "stream\n"
\* and "endstream\n", and the assertion on the ID never fails.
C1_TwoPassLength ==
    /\ status # "panicked"
    /\ \A c \in DOMAIN calls : calls[c].result # "panic"
    /\ \A c \in OkCalls :
         \E i \in Idx("stream") :
            /\ output[i - 1].k = "obj"
            /\ output[i - 1].v.id = calls[c].contents_object_id
            /\ StreamEnd(i) # {}
    /\ \A i \in Idx("stream") : \A j \in StreamEnd(i) :
         /\ j + 3 <= Len(output)
         /\ output[i - 1].k = "obj"
         /\ output[j + 1].k = "endobj"
         /\ output[j + 2].k = "obj"
         /\ output[j + 2].v.id = output[i - 1].v.id + 1
         /\ output[i].v.length = output[j + 2].v.id
         /\ output[j + 3].k = "int"
         /\ output[j + 3].v.value = Pos(j) - Pos(i + 1)

\* a page with drawing commands in its body, rendered after a failed call
C1_Witness ==
    \E c \in OkCalls :
       /\ calls[c].content_length > 28
       /\ \E e \in ErrCalls : e < c
       /\ \E i \in Idx("int") : output[i].v.value = calls[c].content_length

\* the number of complete objects in the output
ObjectsWritten == Cardinality(Idx("endobj"))

\* the number of entries of the cross-reference table: entry 0 and the lines
XrefEntries == 1 + Cardinality(Idx("xref_line"))

XrefOffsetsInRange ==
    \A i \in Idx("xref_line") : \A t \in Idx("startxref") :
        /\ output[i].v.offset >= 0
        /\ output[i].v.offset < output[t].v.startxref

\* C2 as stated: the table has 3 + (objects written) entries.
C2_Original ==
    status = "finished" =>
        /\ XrefEntries = 3 + ObjectsWritten
        /\ XrefOffsetsInRange

\* C2, amended: after finish the table has 1 + (objects written) entries,
\* entry 0 and one per object, the catalog and the pages root included (that
\* is 3 + the objects whose ID was allocated after construction), the count
\* in the xref header is that number, and every entry but entry 0 is a
\* non-negative offset smaller than startxref.
C2_XrefEntries ==
    status = "finished" =>
        /\ XrefEntries = 1 + ObjectsWritten
        /\ XrefEntries = 3 + Cardinality({i \in Complete : output[i].v.id >= 3})
        /\ XrefEntries = Len(object_offsets)
        /\ \A i \in Idx("xref") : output[i].v.count = XrefEntries
        /\ Cardinality(Idx("xref")) = 1
        /\ Cardinality(Idx("startxref")) = 1
        /\ XrefOffsetsInRange

\* a finished document with two pages, a font, an outline and metadata
C2_Witness ==
    /\ status = "finished"
    /\ Cardinality(OkCalls) = 2
    /\ Idx("font") # {}
    /\ Idx("outlines") # {}
    /\ Idx("info") # {}

\* C3: after finish, for every ID from 1 on, the segment that starts at the
\* offset the cross-reference table records for it is the header "<id> 0 obj"
\* of that ID, and the table records the offsets of object_offsets.
C3_RoundTrip ==
    status = "finished" =>
        \A id \in 1..(Len(object_offsets) - 1) :
            /\ XrefOffset(id) = object_offsets[id + 1]
            /\ \E i \in HeadersOf(id) : Pos(i) = XrefOffset(id)

\* a finished document whose IDs reach two digits, with objects written by
\* write_new_object and by write_object_with_id (the outline root among them)
C3_Witness ==
    /\ status = "finished"
    /\ Len(object_offsets) > 10
    /\ fin.outlines_id # None
    /\ \E i \in HeadersOf(fin.outlines_id) : Pos(i) = XrefOffset(fin.outlines_id)

\* the outline item objects, in the order of the output
OutlineSeg(n) == output[Nth(Idx("outline"), n)]
OutlineId(n) == output[Nth(Idx("outline"), n) - 1].v.id

\* C4: after finish with M >= 1 items in the document's list, the output has
\* M item objects and one root; item 1 has no previous and item M no next
\* reference, every other reference is the ID under which the neighbouring
\* item is written, every parent is the root's ID, and the root holds the IDs
\* of the first and last item and Count M.
C4_OutlineChain ==
    (status = "finished" /\ outline_items # <<>>) =>
        LET M == Len(outline_items) IN
        /\ Cardinality(Idx("outline")) = M
        /\ Cardinality(Idx("outlines")) = 1
        /\ \A n \in 1..M :
             /\ output[Nth(Idx("outline"), n) - 1].k = "obj"
             /\ object_offsets[OutlineId(n) + 1] = Pos(Nth(Idx("outline"), n) - 1)
             /\ OutlineSeg(n).v.prev = IF n = 1 THEN None ELSE OutlineId(n - 1)
             /\ OutlineSeg(n).v.next = IF n = M THEN None ELSE OutlineId(n + 1)
             /\ OutlineSeg(n).v.page = outline_items[n].page
             /\ OutlineSeg(n).v.parent = fin.outlines_id
        /\ \A r \in Idx("outlines") :
             /\ output[r - 1].k = "obj"
             /\ output[r - 1].v.id = fin.outlines_id
             /\ object_offsets[fin.outlines_id + 1] = Pos(r - 1)
             /\ output[r].v.first = OutlineId(1)
             /\ output[r].v.last = OutlineId(M)
             /\ output[r].v.count = M

\* three items added on two pages: the middle one has both neighbours
C4_Witness ==
    /\ status = "finished"
    /\ Len(outline_items) = 3
    /\ outline_items[1].page # outline_items[3].page
    /\ OutlineSeg(2).v.prev = OutlineId(1)
    /\ OutlineSeg(2).v.next = OutlineId(3)

\* the font objects of a descriptor in the output
FontObjs(f) == {i \in Idx("font") : output[i].v.font = f}

\* the page dictionary a render_page call wrote
PageSegs(c) ==
    {i \in Idx("page") : output[i - 1].k = "obj"
                            /\ output[i - 1].v.id = calls[c].page_oid}

\* the calls that returned Ok with the descriptor in the page's table
Users(f) == {c \in OkCalls : f \in DOMAIN calls[c].fonts}

\* C5: every descriptor has at most one font object in the output; it is
\* written by the first page that uses the descriptor, between that page's
\* length object and its page dictionary, and recorded in the document-wide
\* map; every page that uses the descriptor names that object's ID in its
\* font resources.
C5_FontObjectOnce ==
    /\ \A f \in BuiltinFont :
         /\ Cardinality(FontObjs(f)) <= 1
         /\ (FontObjs(f) # {}) = (f \in DOMAIN all_font_object_ids)
         /\ (FontObjs(f) # {}) = (Users(f) # {})
         /\ \A i \in FontObjs(f) :
              /\ output[i - 1].k = "obj"
              /\ output[i - 1].v.id = all_font_object_ids[f]
              /\ \A c \in Users(f) : \A d \in PageSegs(c) :
                   /\ i < d
                   /\ (\A e \in Users(f) : c <= e) =>
                          output[i - 1].v.id > calls[c].length_object_id
    /\ \A c \in OkCalls :
         /\ Cardinality(PageSegs(c)) = 1
         /\ \A d \in PageSegs(c) :
              /\ DOMAIN output[d].v.fonts =
                     {calls[c].fonts[f] : f \in DOMAIN calls[c].fonts}
              /\ \A f \in DOMAIN calls[c].fonts :
                     output[d].v.fonts[calls[c].fonts[f]] = all_font_object_ids[f]

\* a second page that uses a descriptor of the first page and a new one: its
\* dictionary names an object written before the page began and a later one
C5_Witness ==
    \E f \in BuiltinFont, g \in BuiltinFont :
       \E c \in Users(f), e \in Users(f) \cap Users(g) :
          /\ c < e
          /\ c \notin Users(g)
          /\ all_font_object_ids[f] < calls[e].contents_object_id
          /\ all_font_object_ids[g] > calls[e].contents_object_id
          /\ Cardinality(FontObjs(f)) = 1

\* C6 as stated: the handles the same descriptor gets on two pages differ,
\* and the output holds one font object for it.
C6_Original ==
    \A f \in BuiltinFont : \A c \in Users(f), e \in Users(f) :
        c # e =>
            /\ calls[c].fonts[f] # calls[e].fonts[f]
            /\ Cardinality(FontObjs(f)) = 1

\* C6, amended: every page numbers its handles from 0 in the order of first
\* use on that page, whatever earlier pages did (so the handles the same
\* descriptor gets on two pages are equal when it is first used at the same
\* position on both and different otherwise), while the output holds exactly
\* one font object for a descriptor that pages use.
C6_PageLocalHandles ==
    /\ \A c \in OkCalls :
         /\ DOMAIN calls[c].fonts = {calls[c].used[n] : n \in DOMAIN calls[c].used}
         /\ \A n \in DOMAIN calls[c].used :
                calls[c].fonts[calls[c].used[n]] = FontRef(n - 1, calls[c].used[n])
    /\ \A f \in BuiltinFont : Users(f) # {} => Cardinality(FontObjs(f)) = 1

\* the same descriptor with different handles on two pages
C6_Witness ==
    \E f \in BuiltinFont : \E c \in Users(f), e \in Users(f) :
       /\ c < e
       /\ calls[c].fonts[f].n = 0
       /\ calls[e].fonts[f].n = 1
       /\ Cardinality(FontObjs(f)) = 1

\* C7: after finish no object ID has more than one header "<id> 0 obj" in
\* the output, whatever render_page calls failed before.
C7_OneHeaderPerId ==
    status = "finished" =>
        \A i \in Idx("obj"), j \in Idx("obj") :
            output[i].v.id = output[j].v.id => i = j

RECURSIVE Rep(_, _)
Rep(seq, n) == IF n = 0 THEN <<>> ELSE seq \o Rep(seq, n - 1)

\* the kinds of the segments from segment i on
KindsFrom(i) == [n \in 1..(Len(output) - i + 1) |-> output[i + n - 1].k]

\* what finish is to write, in order, for the document as it stands
FinishParts ==
    <<"obj", "pages", "endobj">>
        \o (IF DOMAIN document_info # {} THEN <<"obj", "info", "endobj">> ELSE <<>>)
        \o Rep(<<"obj", "outline", "endobj">>, Len(outline_items))
        \o (IF outline_items # <<>> THEN <<"obj", "outlines", "endobj">> ELSE <<>>)
        \o <<"obj", "catalog">>
        \o (IF outline_items # <<>> THEN <<"catalog_outlines">> ELSE <<>>)
        \o <<"dict_end", "endobj", "xref">>
        \o Rep(<<"xref_line">>, Len(object_offsets) - 1)
        \o <<"trailer">>
        \o (IF DOMAIN document_info # {} THEN <<"trailer_info">> ELSE <<>>)
        \o <<"startxref">>

\* C8: what finish appends is, in this order and each part closed before the
\* next: the pages root (ID 2), the info object if metadata was set, the
\* outline items and their root if there are items, the catalog (ID 1), the
\* xref header and lines, the trailer, startxref; no object header follows
\* the xref header.
C8_FinishOrder ==
    status = "finished" =>
        /\ Cardinality(HeadersOf(PAGES_OBJECT_ID)) = 1
        /\ Cardinality(HeadersOf(ROOT_OBJECT_ID)) = 1
        /\ \A i \in HeadersOf(PAGES_OBJECT_ID) : KindsFrom(i) = FinishParts
        /\ \A i \in Idx("catalog") : HeadersOf(ROOT_OBJECT_ID) = {i - 1}
        /\ \A i \in Idx("obj"), x \in Idx("xref") : i < x
        /\ \A i \in Idx("startxref") :
              /\ i = Len(output)
              /\ \A x \in Idx("xref") : output[i].v.startxref = Pos(x)

\* a finished document with metadata and two outline items
C8_Witness ==
    /\ status = "finished"
    /\ DOMAIN document_info # {}
    /\ Len(outline_items) = 2
    /\ \E i \in Idx("info"), j \in Idx("outline"), r \in Idx("outlines"),
          c \in Idx("catalog") : i < j /\ j < r /\ r < c

\* C9: finish never fails an assertion: when it has run, every slot from 1
\* on holds a non-negative offset, one line was written per slot and the
\* trailer is complete; and on a document whose slots 1 and 2 still hold -1
\* (any document before finish) the xref loop aborts before the trailer.
C9_OffsetsWritten ==
    /\ status # "panicked"
    /\ status = "finished" =>
         /\ \A id \in 1..(Len(object_offsets) - 1) : object_offsets[id + 1] >= 0
         /\ Cardinality(Idx("xref_line")) = Len(object_offsets) - 1
         /\ output[Len(output)].k = "startxref"
    /\ status = "open" =>
         /\ \E id \in 1..(Len(object_offsets) - 1) :
                object_offsets[id + 1] = Unwritten
         /\ write_trailer(Self, None).panicked
         /\ \A i \in DOMAIN write_trailer(Self, None).pdf.output :
                write_trailer(Self, None).pdf.output[i].k
                    \notin {"trailer", "trailer_info", "startxref"}

\* a finished document whose slots were filled in all three ways: pushed by
\* write_new_object, reserved and set for the outline root, set for IDs 1, 2
C9_Witness ==
    /\ status = "finished"
    /\ fin.outlines_id # None
    /\ fin.document_info_id # None
    /\ object_offsets[fin.outlines_id + 1] > object_offsets[fin.outlines_id + 2]
    /\ object_offsets[ROOT_OBJECT_ID + 1] > object_offsets[PAGES_OBJECT_ID + 1]

\* C10: a call of write_object_with_id on an ID whose slot holds -1 appends
\* the object, sets that slot to the position the header starts at and
\* leaves the number of slots unchanged; on a filled slot (or an ID without
\* slot) it panics with the output and the offset table unchanged.
C10_WriteObjectWithId ==
    [][(calls' # calls /\ calls'[Len(calls')].result \in {"with_id", "with_id_panic"})
        => LET id == calls'[Len(calls')].id IN
           IF id < Len(object_offsets) /\ object_offsets[id + 1] = Unwritten
           THEN /\ calls'[Len(calls')].result = "with_id"
                /\ status' = "open"
                /\ object_offsets' = [object_offsets EXCEPT ![id + 1] = SumLen(output)]
                /\ Len(object_offsets') = Len(object_offsets)
                /\ Len(output') = Len(output) + 3
                /\ SubSeq(output', 1, Len(output)) = output
                /\ output'[Len(output) + 1] = Seg("obj", Digits(id) + 7, [id |-> id])
                /\ output'[Len(output')].k = "endobj"
           ELSE /\ calls'[Len(calls')].result = "with_id_panic"
                /\ status' = "panicked"
                /\ output' = output
                /\ object_offsets' = object_offsets]_vars

\* a call on the slot of ID 2 that wrote it, then a call on the same ID
C10_Witness ==
    /\ status = "panicked"
    /\ Len(calls) = 2
    /\ calls[1].result = "with_id"
    /\ calls[2].result = "with_id_panic"
    /\ calls[1].id = PAGES_OBJECT_ID
    /\ calls[2].id = PAGES_OBJECT_ID
    /\ object_offsets[PAGES_OBJECT_ID + 1] = HeaderLen

\* C11 as stated: finish after zero rendered pages emits no info object.
C11_Original ==
    (status = "finished" /\ page_objects_ids = <<>>) =>
        /\ Idx("info") = {}
        /\ Idx("outline") \cup Idx("outlines") \cup Idx("catalog_outlines") = {}

\* C11, amended: when finish runs with zero pages rendered, the pages root
\* has Count 0 and no Kids, no outline object is written and the catalog has
\* no /Outlines entry; an info object is written exactly when metadata was
\* set, so with no metadata there is none.
C11_ZeroPages ==
    (status = "finished" /\ page_objects_ids = <<>>) =>
        /\ Cardinality(Idx("pages")) = 1
        /\ \A i \in Idx("pages") :
              /\ output[i].v.count = 0
              /\ output[i].v.kids = <<>>
              /\ output[i].len = 44
        /\ Idx("outline") \cup Idx("outlines") \cup Idx("catalog_outlines") = {}
        /\ fin.outlines_id = None
        /\ (Idx("info") = {}) = (DOMAIN document_info = {})
        /\ (Idx("trailer_info") = {}) = (DOMAIN document_info = {})

\* finish on the new document: three slots, two objects, no info
C11_Witness ==
    /\ status = "finished"
    /\ calls = <<>>
    /\ DOMAIN document_info = {}
    /\ Len(object_offsets) = 3
    /\ KindsFrom(2) = <<"obj", "pages", "endobj", "obj", "catalog", "dict_end",
                        "endobj", "xref", "xref_line", "xref_line", "trailer",
                        "startxref">>

\* C12: with exactly one item in the document's list, finish writes one item
\* object and one root; the item has no previous and no next reference, and
\* the root has First = Last = the item's ID and Count 1.
C12_SingleOutline ==
    (status = "finished" /\ Len(outline_items) = 1) =>
        /\ Cardinality(Idx("outline")) = 1
        /\ Cardinality(Idx("outlines")) = 1
        /\ \A i \in Idx("outline"), r \in Idx("outlines") :
              /\ output[i].v.prev = None
              /\ output[i].v.next = None
              /\ output[i].v.parent = output[r - 1].v.id
              /\ output[i - 1].k = "obj"
              /\ output[r].v.first = output[i - 1].v.id
              /\ output[r].v.last = output[i - 1].v.id
              /\ output[r].v.count = 1
              /\ output[r].len = 63 + 2 * Digits(output[i - 1].v.id)
              /\ output[i].len = 32 + Len(output[i].v.title)
                                    + Digits(output[r - 1].v.id)
                                    + 36 + Digits(output[i].v.page)

\* one page whose callback added one item, then finish
C12_Witness ==
    /\ status = "finished"
    /\ Len(calls) = 1
    /\ calls[1].result = "Ok"
    /\ calls[1].items = 1
    /\ Len(outline_items) = 1
    /\ Cardinality(Idx("outline")) = 1

\* the call log of the scenario: one page, one font, nothing else
OnePageOneFont ==
    /\ status = "finished"
    /\ Len(calls) = 1
    /\ calls[1].result = "Ok"
    /\ Cardinality(DOMAIN calls[1].fonts) = 1
    /\ DOMAIN document_info = {}
    /\ outline_items = <<>>

\* C13: one page with one built-in font, no metadata, no outline items,
\* then finish: the output is the header, the content stream (ID 3) whose
\* announced length is its body size, the length object (4), the font object
\* (5), the page object (6) with Parent 2 and Contents 3, the pages root (2)
\* listing page 6, the catalog (1) naming the pages root, a cross-reference
\* table of 7 entries and a trailer whose startxref is where "xref" starts.
C13_OnePageDocument ==
    OnePageOneFont =>
        /\ output[1].k = "header"
        /\ Cardinality(Idx("stream")) = 1
        /\ Cardinality(Idx("int")) = 1
        /\ Cardinality(Idx("font")) = 1
        /\ Cardinality(Idx("page")) = 1
        /\ Cardinality(Idx("pages")) = 1
        /\ Cardinality(Idx("catalog")) = 1
        /\ Idx("info") \cup Idx("outline") \cup Idx("outlines") = {}
        /\ \A s \in Idx("stream"), n \in Idx("int"), e \in Idx("endstream") :
              /\ output[s - 1].v.id = 3
              /\ output[s].v.length = 4
              /\ output[n - 1].v.id = 4
              /\ output[n].v.value = Pos(e) - Pos(s + 1)
        /\ \A f \in Idx("font") : output[f - 1].v.id = 5
        /\ \A d \in Idx("page") :
              /\ output[d - 1].v.id = 6
              /\ output[d].v.parent = PAGES_OBJECT_ID
              /\ output[d].v.contents = 3
              /\ \A r \in DOMAIN output[d].v.fonts : output[d].v.fonts[r] = 5
        /\ \A r \in Idx("pages") :
              /\ output[r - 1].v.id = PAGES_OBJECT_ID
              /\ output[r].v.count = 1
              /\ output[r].v.kids = <<6>>
        /\ \A c \in Idx("catalog") :
              /\ output[c - 1].v.id = ROOT_OBJECT_ID
              /\ output[c].v.pages = PAGES_OBJECT_ID
              /\ output[c + 1].k = "dict_end"
        /\ Len(object_offsets) = 7
        /\ Cardinality(Idx("xref_line")) = 6
        /\ \A x \in Idx("xref"), t \in Idx("startxref"), l \in Idx("trailer") :
              /\ output[x].v.count = 7
              /\ output[l].v.size = 7
              /\ output[l].v.root = ROOT_OBJECT_ID
              /\ output[t].v.startxref = Pos(x)
        /\ \A id \in 1..6 : \A h \in HeadersOf(id) : XrefOffset(id) = Pos(h)

\* the scenario with a callback that also strokes: a body longer than the
\* colour-space line
C13_Witness ==
    /\ OnePageOneFont
    /\ calls[1].content_length > 28
    /\ \A id \in 1..6 : Cardinality(HeadersOf(id)) = 1

\* the setter calls that store under the key a setter is named after, or,
\* for the keywords setter, under Subject
StoredUnder(key) ==
    {n \in DOMAIN calls :
        calls[n].result = key \/ (key = "Subject" /\ calls[n].result = "Keywords")}

NewFontIds ==
    {all_font_object_ids'[f] :
        f \in DOMAIN all_font_object_ids' \ DOMAIN all_font_object_ids}

\* the IDs of the outline items in the output after a step, and of the root
NewOutlineIds ==
    {output'[j - 1].v.id : j \in {i \in DOMAIN output' : output'[i].k = "outline"}}

\* how many IDs finish allocates: the info object, the outline root, the items
FinishAllocates ==
    (IF DOMAIN document_info # {} THEN 1 ELSE 0)
        + (IF outline_items # <<>> THEN 1 + Len(outline_items) ELSE 0)

\* C16: IDs are handed out in sequence without gaps: with n offset slots
\* before a step (n >= 3), a render_page that returns Ok gives the stream n,
\* the length n+1, the new font objects the next IDs and the page the last
\* one, and leaves as many slots as IDs given; a failed one announces n and
\* allocates nothing; finish gives the info object n (if any), the outline
\* root the next ID and the items the IDs after it; no step panics.
C16_SequentialIds ==
    [][/\ Len(object_offsets) >= 3
       /\ status' # "panicked"
       /\ Len(object_offsets') >= Len(object_offsets)
       /\ (calls' # calls /\ calls'[Len(calls')].result = "Ok") =>
             /\ calls'[Len(calls')].contents_object_id = Len(object_offsets)
             /\ calls'[Len(calls')].length_object_id = Len(object_offsets) + 1
             /\ NewFontIds = (Len(object_offsets) + 2)
                                ..(Len(object_offsets) + 1 + Cardinality(NewFontIds))
             /\ calls'[Len(calls')].page_oid =
                    Len(object_offsets) + 2 + Cardinality(NewFontIds)
             /\ Len(object_offsets') = calls'[Len(calls')].page_oid + 1
       /\ (calls' # calls /\ calls'[Len(calls')].result = "Err") =>
             /\ calls'[Len(calls')].contents_object_id = Len(object_offsets)
             /\ object_offsets' = object_offsets
       /\ (status = "open" /\ status' = "finished") =>
             /\ fin'.document_info_id =
                    IF DOMAIN document_info # {} THEN Len(object_offsets) ELSE None
             /\ fin'.outlines_id =
                    IF outline_items = <<>> THEN None
                    ELSE Len(object_offsets) + FinishAllocates - Len(outline_items) - 1
             /\ NewOutlineIds =
                    (Len(object_offsets) + FinishAllocates - Len(outline_items))
                        ..(Len(object_offsets) + FinishAllocates - 1)
             /\ Len(object_offsets') = Len(object_offsets) + FinishAllocates
       /\ (calls' = calls /\ status' = "open") => object_offsets' = object_offsets
      ]_vars

\* a page with a new font and an outline item, metadata, finish: IDs 3 to 9
C16_Witness ==
    /\ status = "finished"
    /\ Len(calls) = 1
    /\ calls[1].contents_object_id = 3
    /\ calls[1].length_object_id = 4
    /\ all_font_object_ids = ("Courier" :> 5)
    /\ calls[1].page_oid = 6
    /\ fin.document_info_id = 7
    /\ fin.outlines_id = 8
    /\ \A i \in Idx("outline") : output[i - 1].v.id = 9
    /\ Idx("outline") # {}
    /\ Len(object_offsets) = 10

\* the segments of the body of the stream opened at segment i and closed at j
Body(i, j) == SubSeq(output, i + 1, j - 1)

\* C17: the length written for a page is the number of bytes of the file
\* between the end of "stream\n" and the start of "endstream\n": the 28 bytes
\* of the colour-space line, which is the first thing in every body, plus
\* the bytes the callback wrote (2 per stroke).
C17_LengthCountsBody ==
    /\ \A c \in OkCalls :
          Cardinality({i \in Idx("int") :
                          output[i - 1].v.id = calls[c].length_object_id
                             /\ output[i].v.value = calls[c].content_length}) = 1
    /\ \A i \in Idx("stream") : \A j \in StreamEnd(i) :
          /\ output[i + 1] = Seg("cs", 28, <<>>)
          /\ output[j + 3].v.value = SumLen(Body(i, j))
          /\ output[j + 3].v.value = 28 + 2 * Cardinality({n \in Idx("s") : i < n /\ n < j})
          /\ output[j + 3].len = Digits(output[j + 3].v.value) + 1
          /\ Pos(j) = Pos(i + 1) + output[j + 3].v.value

\* a page with an empty callback (length 28) and a page with two strokes
C17_Witness ==
    \E c \in OkCalls, d \in OkCalls :
       /\ calls[c].content_length = 28
       /\ calls[d].content_length = 32
       /\ \E i \in Idx("int") : output[i].v.value = 32

RECURSIVE ItemsOfCalls(_)
\* the items the first n calls added, each with the page object of its call:
\* call after call, and within a call in the order of the add_outline calls
ItemsOfCalls(n) ==
    IF n = 0 THEN <<>>
    ELSE ItemsOfCalls(n - 1)
            \o [i \in DOMAIN calls[n].added |->
                   [title |-> calls[n].added[i], page |-> calls[n].page_oid]]

\* C18: the document's list holds, for every page rendered so far in render
\* order and within a page in the order of the add_outline calls, the item
\* with the ID of that page's dictionary object; no item of the list is
\* without a page; finish writes the items in this order with these pages.
C18_OutlineItemsResolved ==
    /\ outline_items = ItemsOfCalls(Len(calls))
    /\ \A n \in DOMAIN outline_items :
          /\ outline_items[n].page # None
          /\ \E d \in Idx("page") : output[d - 1].v.id = outline_items[n].page
          /\ \E c \in OkCalls : page_objects_ids[Cardinality({e \in OkCalls : e <= c})]
                                   = outline_items[n].page
    /\ status = "finished" =>
          /\ Cardinality(Idx("outline")) = Len(outline_items)
          /\ \A n \in DOMAIN outline_items :
                /\ OutlineSeg(n).v.title = outline_items[n].title
                /\ OutlineSeg(n).v.page = outline_items[n].page

\* two pages, the first adding "u" then "t", the second "t"; then finish
C18_Witness ==
    /\ status = "finished"
    /\ Len(calls) = 2
    /\ calls[1].added = <<"u", "t">>
    /\ calls[2].added = <<"t">>
    /\ outline_items = <<[title |-> "u", page |-> calls[1].page_oid],
                         [title |-> "t", page |-> calls[1].page_oid],
                         [title |-> "t", page |-> calls[2].page_oid]>>
    /\ calls[1].page_oid # calls[2].page_oid

\* the Pdf inside write_outlines after the first k items were written, when
\* write_outlines is called on the document as it stands
AfterItems(k) ==
    items_loop([pdf |-> reserve_parent(Self), first_id |-> 0, last_id |-> 0],
               SubSeq(outline_items, 1, k), 0, Len(object_offsets)).pdf

\* C19: with items, the root's ID is reserved first and the items get the
\* IDs root+1 .. root+M; while the items are written the root's slot holds
\* -1 and no root object is in the output; the root is written after the
\* last item and before the catalog, which names it. Without items
\* write_outlines changes nothing and the catalog has no /Outlines entry.
C19_RootReservedFirst ==
    /\ (status = "open" /\ outline_items # <<>>) =>
          \A k \in 0..Len(outline_items) :
             /\ AfterItems(k).object_offsets[Len(object_offsets) + 1] = Unwritten
             /\ Len(AfterItems(k).object_offsets) = Len(object_offsets) + 1 + k
             /\ \A i \in DOMAIN AfterItems(k).output :
                   AfterItems(k).output[i].k # "outlines"
    /\ (status = "open" /\ outline_items = <<>>) =>
          write_outlines(Self) = [panicked |-> FALSE, pdf |-> Self, id |-> None]
    /\ (status = "finished" /\ outline_items # <<>>) =>
          /\ \A n \in DOMAIN outline_items :
                /\ OutlineId(n) = fin.outlines_id + n
                /\ object_offsets[OutlineId(n) + 1]
                      < object_offsets[fin.outlines_id + 1]
          /\ object_offsets[fin.outlines_id + 1] < object_offsets[ROOT_OBJECT_ID + 1]
          /\ \A r \in Idx("outlines") :
                /\ output[r - 1].v.id = fin.outlines_id
                /\ Pos(r - 1) = object_offsets[fin.outlines_id + 1]
                /\ \A i \in Idx("outline") : i < r
          /\ Cardinality(Idx("catalog_outlines")) = 1
          /\ \A c \in Idx("catalog_outlines") :
                output[c].v.outlines = fin.outlines_id
    /\ (status = "finished" /\ outline_items = <<>>) =>
          /\ fin.outlines_id = None
          /\ Idx("outlines") \cup Idx("outline") \cup Idx("catalog_outlines") = {}
          /\ \A id \in 3..(Len(object_offsets) - 1) :
                \E i \in HeadersOf(id) :
                   output[i + 1].k \in {"stream", "int", "font", "page", "info"}

\* two items and metadata: the root (reserved after the info object) is
\* written after both items
C19_Witness ==
    /\ status = "finished"
    /\ Len(outline_items) = 2
    /\ fin.document_info_id # None
    /\ fin.outlines_id = fin.document_info_id + 1
    /\ OutlineId(2) = fin.outlines_id + 2
    /\ object_offsets[fin.outlines_id + 1] > object_offsets[fin.outlines_id + 3]

RECURSIVE PagesOfCalls(_)
\* the page objects of the first n calls that returned Ok, in call order
PagesOfCalls(n) ==
    IF n = 0 THEN <<>>
    ELSE IF calls[n].result = "Ok"
         THEN Append(PagesOfCalls(n - 1), calls[n].page_oid)
         ELSE PagesOfCalls(n - 1)

\* C20: the page list holds the page-dictionary IDs of the calls that
\* returned Ok, in call order, and nothing for a call that failed; the pages
\* root finish writes has this list as Kids and its length as Count.
C20_PagesRoot ==
    /\ page_objects_ids = PagesOfCalls(Len(calls))
    /\ Len(page_objects_ids) = Cardinality(OkCalls)
    /\ \A n \in DOMAIN page_objects_ids :
          \E d \in Idx("page") : output[d - 1].v.id = page_objects_ids[n]
    /\ status = "finished" =>
          /\ Cardinality(Idx("pages")) = 1
          /\ \A r \in Idx("pages") :
                /\ output[r - 1].v.id = PAGES_OBJECT_ID
                /\ output[r].v.count = Cardinality(OkCalls)
                /\ output[r].v.kids = PagesOfCalls(Len(calls))
                /\ output[r].len = 43 + Digits(Cardinality(OkCalls))
                                      + SumDigits(output[r].v.kids)
                                      + 5 * Cardinality(OkCalls)

\* two pages, then finish: Count 2 and the two pages as Kids in call order
C20_Witness ==
    /\ status = "finished"
    /\ Len(calls) = 2
    /\ calls[1].result = "Ok"
    /\ calls[2].result = "Ok"
    /\ calls[1].page_oid < calls[2].page_oid
    /\ \E r \in Idx("pages") :
          /\ output[r].v.count = 2
          /\ output[r].v.kids = <<calls[1].page_oid, calls[2].page_oid>>

\* the point a matrix maps the point pt = <<x, y>> to: <<x, y, 1>> times the
\* matrix of rows <<v0, v1>>, <<v2, v3>>, <<v4, v5>>
Transform(m, pt) ==
    <<FAdd(FAdd(FMul(pt[1], m[1]), FMul(pt[2], m[3])), m[5]),
      FAdd(FAdd(FMul(pt[1], m[2]), FMul(pt[2], m[4])), m[6])>>

Points == {<<x, y>> : x \in {Zero, One, FInt(-3)}, y \in {Zero, One, FInt(5)}}

\* C15: the four tests hold whatever the platform's cosine and sine return
\* within one unit in the last place: the product of a transform and its
\* inverse (and rotate(2 PI)) differs from [1,0,0,1,0,0] by at most 1e-6 times
\* the largest element; and a product a * b maps every point to where b maps
\* the point a maps it to.
C15_MatrixMul ==
    /\ status # "panicked"
    /\ \A n \in DOMAIN calls :
          /\ calls[n].result \in {"a", "b", "c", "d"} =>
                /\ assert_unit(calls[n].m)
                /\ \A i \in 1..6 :
                      ~FGt(Abs(FSub(calls[n].m[i], Unit[i])), Epsilon)
          /\ calls[n].result = "b" => calls[n].m = Unit
          /\ calls[n].result = "mul" =>
                \A pt \in Points :
                   Transform(calls[n].m, pt)
                      = Transform(calls[n].b, Transform(calls[n].a, pt))

\* the product of the two rotations is not the unit matrix itself: the
\* tolerance is what lets the test pass
C15_Witness ==
    /\ calls # <<>>
    /\ calls[1].result = "a"
    /\ calls[1].m # Unit
    /\ FSub(One, calls[1].m[1]).m # 0
    /\ assert_unit(calls[1].m)

\* C21: in the trailer finish writes, /Size is the number of offset slots,
\* which is the count of the xref header and one more than the number of
\* lines after it; /Root is 1; /Info is there exactly when a metadata setter
\* was called, and then names the object that holds the info dictionary;
\* startxref is the position at which "xref" starts.
C21_Trailer ==
    status = "finished" =>
        /\ Cardinality(Idx("trailer")) = 1
        /\ Cardinality(Idx("xref")) = 1
        /\ Cardinality(Idx("startxref")) = 1
        /\ \A t \in Idx("trailer"), x \in Idx("xref"), s \in Idx("startxref") :
              /\ output[t].v.size = Len(object_offsets)
              /\ output[x].v.count = output[t].v.size
              /\ Cardinality(Idx("xref_line")) = output[t].v.size - 1
              /\ output[t].v.root = ROOT_OBJECT_ID
              /\ output[s].v.startxref = Pos(x)
              /\ output[s].v.startxref = fin.startxref
              /\ x < t /\ t < s
        /\ (Idx("trailer_info") # {}) = (fin.sets > 0)
        /\ Cardinality(Idx("trailer_info")) <= 1
        /\ \A i \in Idx("trailer_info") :
              /\ output[i - 1].k = "trailer"
              /\ output[i].v.info = fin.document_info_id
              /\ \E h \in HeadersOf(output[i].v.info) :
                    /\ output[h + 1].k = "info"
                    /\ output[h + 1].v.info = document_info
                    /\ Pos(h) = object_offsets[output[i].v.info + 1]

\* a page, then a setter, then finish: the info object is object 6 of 7
C21_Witness ==
    /\ status = "finished"
    /\ fin.sets = 1
    /\ OkCalls # {}
    /\ \E i \in Idx("trailer_info"), t \in Idx("trailer") :
          /\ output[i].v.info > PAGES_OBJECT_ID
          /\ output[t].v.size = output[i].v.info + 1

\* the segments a step appended to the output
Appended == SubSeq(output', Len(output) + 1, Len(output'))

\* C22: a render_page whose callback, or whose write inside the closure of
\* the content stream, fails returns the error: it writes no "endstream", no
\* "endobj", no length object, no font object and no page dictionary, the
\* offset table, the page list, the outline list and the font map are as
\* before the call, and what was in the output and what the call appended
\* before the failure is in the output.
C22_FailedRender ==
    [][(calls' # calls /\ calls'[Len(calls')].result = "Err") =>
          /\ object_offsets' = object_offsets
          /\ page_objects_ids' = page_objects_ids
          /\ outline_items' = outline_items
          /\ all_font_object_ids' = all_font_object_ids
          /\ document_info' = document_info
          /\ status' = "open"
          /\ Len(output') > Len(output)
          /\ SubSeq(output', 1, Len(output)) = output
          /\ Appended[1].k = "obj"
          /\ Appended[1].v.id = Len(object_offsets)
          /\ \A i \in 2..Len(Appended) :
                CASE i = 2 -> Appended[i].k = "stream"
                  [] i = 3 -> Appended[i].k = "cs"
                  [] OTHER -> Appended[i].k = "s"
          /\ calls'[Len(calls')].page_oid = None
          /\ calls'[Len(calls')].length_object_id = None]_vars

\* a call that failed at "endstream" after two strokes, then a call that
\* succeeded: the first call's bytes lie before the second call's object,
\* which has the same ID, and the tables hold the second call's entries only
C22_Witness ==
    /\ Len(calls) = 2
    /\ calls[1].result = "Err"
    /\ "at" \in DOMAIN calls[1]
    /\ calls[1].at = "endstream"
    /\ calls[2].result = "Ok"
    /\ <<output[2].k, output[3].k, output[4].k, output[5].k, output[6].k,
         output[7].k>> = <<"obj", "stream", "cs", "s", "s", "obj">>
    /\ output[2].v.id = output[7].v.id
    /\ Len(page_objects_ids) = 1
    /\ Len(object_offsets) = 6

\* the canvas after the first n operations of the callback
CanvasAt(n) ==
    IF n = 0 THEN create_canvas(<<>>, <<>>, <<>>) ELSE calls[n].canvas

\* the reference the n-th operation, a get_font, returned
Returned(n) == calls[n].canvas.refs[Len(calls[n].canvas.refs)]

\* get_font(font) on the canvas `before` left the canvas `after` and
\* returned r as the claim says
GetFontStep(before, after, font, r) ==
    /\ Len(after.refs) = Len(before.refs) + 1
    /\ r = after.fonts[font]
    /\ IF font \in DOMAIN before.fonts
       THEN /\ after.fonts = before.fonts
            /\ r = before.fonts[font]
       ELSE /\ r.n = Cardinality(DOMAIN before.fonts)
            /\ DOMAIN after.fonts = DOMAIN before.fonts \cup {font}
            /\ \A g \in DOMAIN before.fonts : after.fonts[g] = before.fonts[g]

\* asking again for the font just asked for changes nothing but the log
Idempotent(c1, c2) ==
    /\ c2.fonts = c1.fonts
    /\ c2.refs[Len(c2.refs)] = c1.refs[Len(c1.refs)]
    /\ c2.output = c1.output
    /\ c2.outline_items = c1.outline_items

\* the font table has the indices 0..n-1, one each, in the order `used` of
\* the first uses
FirstUseOrder(fonts, used) ==
    /\ Len(used) = Cardinality(DOMAIN fonts)
    /\ {fonts[g].n : g \in DOMAIN fonts} = 0..(Len(used) - 1)
    /\ \A k \in DOMAIN used : used[k] \in DOMAIN fonts /\ fonts[used[k]].n = k - 1
    /\ \A g, h \in DOMAIN fonts : fonts[g].n = fonts[h].n => g = h

\* C23: within one page get_font returns for a descriptor already seen the
\* reference it returned before and leaves the font table as it is; a
\* descriptor seen for the first time gets the number of descriptors seen
\* before it, so the table of n descriptors has the indices 0..n-1, one
\* each, in the order of first use.
C23_GetFontIdempotent ==
    /\ \A n \in DOMAIN calls :
          IF calls[n].op = "get_font"
          THEN GetFontStep(CanvasAt(n - 1), CanvasAt(n), calls[n].arg, Returned(n))
          ELSE CanvasAt(n).fonts = CanvasAt(n - 1).fonts
    /\ \A font \in CanvasFonts :
          Idempotent(get_font(TheCanvas, font),
                     get_font(get_font(TheCanvas, font), font))
    /\ FirstUseOrder(TheCanvas.fonts,
                     first_uses([n \in DOMAIN calls |->
                                    [op |-> calls[n].op, arg |-> calls[n].arg]],
                                <<>>))

\* two descriptors, then the first again: the references 0, 1, 0 and a
\* table of two
C23_Witness ==
    /\ Len(calls) = 3
    /\ \A n \in 1..3 : calls[n].op = "get_font"
    /\ calls[1].arg # calls[2].arg
    /\ calls[3].arg = calls[1].arg
    /\ <<Returned(1).n, Returned(2).n, Returned(3).n>> = <<0, 1, 0>>
    /\ Cardinality(DOMAIN TheCanvas.fonts) = 2

\* the object IDs one segment of the output refers to
RefsOf(s) ==
    CASE s.k = "stream" -> {s.v.length}
      [] s.k = "page" ->
            {s.v.parent, s.v.contents} \cup {s.v.fonts[r] : r \in DOMAIN s.v.fonts}
      [] s.k = "pages" -> {s.v.kids[i] : i \in DOMAIN s.v.kids}
      [] s.k = "outline" ->
            {s.v.parent, s.v.prev, s.v.next, s.v.page} \ {None}
      [] s.k = "outlines" -> {s.v.first, s.v.last}
      [] s.k = "catalog" -> {s.v.pages}
      [] s.k = "catalog_outlines" -> {s.v.outlines}
      [] s.k = "trailer" -> {s.v.root}
      [] s.k = "trailer_info" -> {s.v.info}
      [] OTHER -> {}

\* every object ID the output refers to
Referenced == UNION {RefsOf(output[i]) : i \in DOMAIN output}

\* the ID is below /Size, and the cross-reference table gives it a
\* non-negative offset at which an object of this ID was written to its end
Written(id) ==
    /\ id \in 1..(Len(object_offsets) - 1)
    /\ XrefOffset(id) >= 0
    /\ \E h \in HeadersOf(id) \cap Complete : Pos(h) = XrefOffset(id)

\* C24: at the end of a successful finish every object ID the output refers
\* to (in /Length, /Parent, /Contents, the font resources, /Kids, the outline
\* items and their root, the catalog and the trailer) is in 1..Size-1 and is
\* the ID of an object that was written, with a non-negative offset in the
\* cross-reference table.
C24_ReferentialIntegrity ==
    status = "finished" => \A id \in Referenced : Written(id)

\* the same for the documents none of whose render_page calls failed
C24_NoFailedCall ==
    (status = "finished" /\ ErrCalls = {}) => \A id \in Referenced : Written(id)

\* the offset recorded for an ID
Offset(id) == object_offsets[id + 1]

\* the IDs of the objects written by write_new_object: all from 3 on but the
\* outline root, whose ID is reserved and written by write_object_with_id
NewObjectIds == (3..(Len(object_offsets) - 1)) \ {fin.outlines_id}

\* the IDs of the content, length, font and page objects of the pages
RenderIds ==
    UNION {{calls[c].contents_object_id, calls[c].length_object_id,
            calls[c].page_oid}
               \cup {calls[c].font_oids[r] : r \in DOMAIN calls[c].font_oids} :
           c \in OkCalls}

\* C25: after finish the recorded offsets are pairwise different and none
\* lies inside the 15 bytes of the header; among the objects written by
\* write_new_object a larger ID has a larger offset; the pages root (ID 2)
\* lies after every content, length, font and page object, and the catalog
\* (ID 1) has the largest offset of the table.
C25_OffsetOrder ==
    status = "finished" =>
        /\ \A i, j \in 1..(Len(object_offsets) - 1) :
              Offset(i) = Offset(j) => i = j
        /\ \A i \in 1..(Len(object_offsets) - 1) : Offset(i) >= HeaderLen
        /\ \A i, j \in NewObjectIds : i < j => Offset(i) < Offset(j)
        /\ RenderIds \subseteq NewObjectIds
        /\ \A i \in RenderIds : Offset(i) < Offset(PAGES_OBJECT_ID)
        /\ \A i \in 2..(Len(object_offsets) - 1) : Offset(i) < Offset(ROOT_OBJECT_ID)

\* a page with an outline item: object 3 starts at byte 15, the pages root
\* lies after the page's objects, and the outline root, whose ID is smaller
\* than its item's, lies after the item
C25_Witness ==
    /\ status = "finished"
    /\ OkCalls # {}
    /\ Offset(3) = HeaderLen
    /\ fin.outlines_id # None
    /\ Offset(fin.outlines_id) > Offset(fin.outlines_id + 1)
    /\ Offset(PAGES_OBJECT_ID) < Offset(fin.outlines_id + 1)

====
